---- MODULE Spec2Model ----
(***************************************************************************)
(* The LSIF upload conversion and retention pipeline of                    *)
(* lsif/src/worker/conversion (convertUpload, convertDatabase,             *)
(* updateCommitsAndDumpsVisibleFromTip, purgeOldDumps, dirsize, filesize). *)
(*                                                                         *)
(* Every worker runs convertUpload for one upload.  Each `await` of the    *)
(* source is one atomic step of the worker (the awaited call together with *)
(* the synchronous code that follows it up to the next await), so that the *)
(* steps of several workers interleave exactly where the event loop or     *)
(* another process can interleave them.                                    *)
(***************************************************************************)
EXTENDS Integers, Sequences, FiniteSets, TLC

VARIABLES
    quota,            \* settings.DBS_DIR_MAXIMUM_SIZE_BYTES
    upl,              \* upload records: [repository, commit, root, size]
    gitserver,        \* the VCS: discoverCommits' answer for every anchor commit
    srcFiles,         \* uploads whose source file upload.filename exists
    tempFiles,        \* uploads whose temp file STORAGE_ROOT/temp/basename exists
    dbFiles,          \* dump ids whose file exists at dbFilename(STORAGE_ROOT, id, ..)
    dumps,            \* dump ids with a metadata row in the store
    visible,          \* dump ids whose visible_at_tip flag is set
    commitGraph,      \* commit graph kept by the store (commit -> parents)
    lock,             \* the holders of the 'retention' advisory lock
    pc,               \* the await each worker is suspended at
    err,              \* the error in flight / raised by convertUpload, or None
    calls,            \* per worker, the collaborator calls made so far
    tipCommit,        \* local of updateCommitsAndDumpsVisibleFromTip
    commits,          \* local of updateCommitsAndDumpsVisibleFromTip
    tipCommits,       \* local of updateCommitsAndDumpsVisibleFromTip
    entries,          \* dirsize: directory entries still to be stat'ed
    currentSizeBytes, \* local of purge
    dump,             \* local of purge: the selected dump ({} before the first)
    warned,           \* purge logged the "unable to reduce disk usage" warning
    added,            \* history: a file entered the directory since w's readdir
    purged            \* history: the dumps w's purge passed to deleteDump, in order

vars == <<quota, upl, gitserver, srcFiles, tempFiles, dbFiles, dumps, visible,
          commitGraph, lock, pc, err, calls, tipCommit, commits, tipCommits,
          entries, currentSizeBytes, dump, warned, added, purged>>

\* ------------------------------------------------------------------ bounds

\* Largest size in bytes of a converted database file.
MaxSize == 1

\* Largest configured DBS_DIR_MAXIMUM_SIZE_BYTES (the smallest is -1).
MaxQuota == 1

\* Workers; worker w processes the upload with id w (ids grow with age: the
\* lowest is the oldest).  A worker is idle when it runs no convertUpload
\* here: its upload has not arrived, or was processed before.
Workers == {1, 2, 3}

\* The workers that run convertUpload concurrently.
Concurrent == {1, 2}

Repositories == {"repo"}
Roots == {""}
Commits == {"a", "b"}

None == "none"
Undefined == "undefined"

\* ------------------------------------------------------ commit graph fragments

\* Map<string, Set<string>>: commit -> set of parent commits.
Fragments == UNION {[D -> SUBSET Commits] : D \in SUBSET Commits}

EmptyFragment == [k \in {} |-> {}]

\* commits.get(k) || []
GetOrEmpty(m, k) == IF k \in DOMAIN m THEN m[k] ELSE {}

\* commits.set(k, v)
MapSet(m, k, v) == [x \in DOMAIN m \cup {k} |-> IF x = k THEN v ELSE m[x]]

\* The body of the merge loop, with the union dropped (last writer wins).
MergeEntryOverwrite(m, k, v) == MapSet(m, k, v)

\* commits.set(k, new Set([...(commits.get(k) || []), ...v]))
MergeEntry(m, k, v) == MapSet(m, k, GetOrEmpty(m, k) \cup v)

RECURSIVE MergeLoop(_, _, _)
\* for (const [k, v] of tipCommits.entries()) { ... }, over the keys left in ks
MergeLoop(m, t, ks) ==
    IF ks = {} THEN m
    ELSE LET k == CHOOSE x \in ks : TRUE
         IN MergeLoop(MergeEntry(m, k, t[k]), t, ks \ {k})

\* Merge the fragment discovered from the tip into the one discovered from
\* the processed commit.
Merge(m, t) == MergeLoop(m, t, DOMAIN t)

\* ------------------------------------------------------------ the collaborators

Key(u) == <<upl[u].repository, upl[u].commit, upl[u].root>>

\* deleteOverlappingDumps: the dumps of the same repository, commit and root.
Overlapping(u) == {d \in dumps : d # u /\ Key(d) = Key(u)}

RECURSIVE Reach(_, _)
\* Commits reachable backward from the commits of S in graph g.
Reach(g, S) ==
    LET n == S \cup UNION {g[c] : c \in S \cap DOMAIN g}
    IN IF n = S THEN S ELSE Reach(g, n)

\* updateDumpsVisibleFromTip: the dumps of the repository reachable from the tip.
VisibleFromTip(repository, tip, g, ds) ==
    {d \in ds : upl[d].repository = repository /\ upl[d].commit \in Reach(g, {tip})}

\* getOldestPrunableDump: dumps that are not visible at the tip, oldest first.
Prunable == dumps \ visible

OldestPrunable == CHOOSE d \in Prunable : \A e \in Prunable : d <= e

\* (await fs.stat(filename)).size, or 0 on ENOENT
\* The size on record, whether the file exists or not.
FilesizeRecorded(d) == upl[d].size

Filesize(d) == IF d \in dbFiles THEN upl[d].size ELSE 0

\* filesize(dbFilename(storageRoot, dump.id, dump.repository, dump.commit))
\* The size on record of the dump, whether its file exists or not.
DumpFilesizeRecorded(sel) == LET d == CHOOSE x \in sel : TRUE IN upl[d].size

DumpFilesize(sel) == LET d == CHOOSE x \in sel : TRUE IN Filesize(d)

\* DumpManager.deleteDump for each dump of ds: the rows (and, by cascade, the
\* packages and references) and the files at their dbFilename are gone.
DeleteDumps(ds) ==
    /\ dumps' = dumps \ ds
    /\ visible' = visible \ ds
    /\ dbFiles' = dbFiles \ ds

\* The unique index on (repository, commit, root) admits the dump of upload u.
UniqueIndexAdmits(u) == Overlapping(u) = {}

\* DependencyManager.addPackagesAndReferences: the dump row of upload u exists.
InsertDump(u) == dumps' = dumps \cup {u}

\* DumpManager.updateCommits: the graph of the store after it took in g.
StoredCommits(g) == Merge(commitGraph, g)

\* The dump of a selection, as a sequence of one.
SetToSeq(sel) == <<CHOOSE x \in sel : TRUE>>

Call(w, op, ok) == calls' = [calls EXCEPT ![w] = Append(@, [op |-> op, ok |-> ok])]

\* -------------------------------------------------------------------- Init

UploadRecords == [repository : Repositories, commit : Commits, root : Roots,
                  size : 0..MaxSize]

\* What a VCS answers: the history reachable backward from the anchor.
Histories == {[c \in Commits |-> {}], [c \in Commits |-> IF c = "b" THEN {"a"} ELSE {}]}

Discovered(h, c) == [k \in Reach(h, {c}) |-> h[k]]

IdleRecord == [repository |-> "repo", commit |-> "a", root |-> "", size |-> 0]

InitCommon(started) ==
    /\ quota \in -1..MaxQuota
    /\ upl \in {u \in [Workers -> UploadRecords] :
                   \A w \in Workers \ started : u[w] = IdleRecord}
    /\ srcFiles = started
    /\ tempFiles = {}
    /\ dbFiles = {}
    /\ dumps = {}
    /\ visible = {}
    /\ commitGraph = EmptyFragment
    /\ lock = {}
    /\ pc = [w \in Workers |-> IF w \in started THEN "convertLsif" ELSE "idle"]
    /\ err = [w \in Workers |-> None]
    /\ calls = [w \in Workers |-> <<>>]
    /\ tipCommit = [w \in Workers |-> None]
    /\ commits = [w \in Workers |-> EmptyFragment]
    /\ tipCommits = [w \in Workers |-> EmptyFragment]
    /\ entries = [w \in Workers |-> {}]
    /\ currentSizeBytes = [w \in Workers |-> 0]
    /\ dump = [w \in Workers |-> {}]
    /\ warned = [w \in Workers |-> FALSE]
    /\ added = [w \in Workers |-> FALSE]
    /\ purged = [w \in Workers |-> <<>>]

Init ==
    /\ gitserver \in {[c \in Commits |-> Discovered(h, c)] : h \in Histories}
    /\ InitCommon(Concurrent)


\* ------------------------------------------------------- convertDatabase

Goto(w, l) == pc' = [pc EXCEPT ![w] = l]

Throw(w, e) == err' = [err EXCEPT ![w] = e]

\* The converter followed at once by addPackagesAndReferences.
ConvertLsifOkSkipOverlap(w) ==
    /\ pc[w] = "convertLsif"
    /\ tempFiles' = tempFiles \cup {w}
    /\ Call(w, "convertLsif", TRUE)
    /\ Goto(w, "addPackagesAndReferences")
    /\ UNCHANGED <<quota, upl, gitserver, srcFiles, dbFiles, dumps, visible, commitGraph,
                   lock, err, tipCommit, commits, tipCommits, entries,
                   currentSizeBytes, dump, warned>>
    /\ UNCHANGED <<added, purged>>

\* convertLsif(upload.filename, tempFile) resolves: the database is at tempFile.
ConvertLsifOk(w) ==
    /\ pc[w] = "convertLsif"
    /\ tempFiles' = tempFiles \cup {w}
    /\ Call(w, "convertLsif", TRUE)
    /\ Goto(w, "deleteOverlappingDumps")
    /\ UNCHANGED <<quota, upl, gitserver, srcFiles, dbFiles, dumps, visible, commitGraph,
                   lock, err, tipCommit, commits, tipCommits, entries,
                   currentSizeBytes, dump, warned>>
    /\ UNCHANGED <<added, purged>>

\* convertLsif rejects, having left a partial file at tempFile or not.
ConvertLsifFail(w) ==
    /\ pc[w] = "convertLsif"
    /\ \E partial \in BOOLEAN :
          tempFiles' = IF partial THEN tempFiles \cup {w} ELSE tempFiles
    /\ Call(w, "convertLsif", FALSE)
    /\ Throw(w, "ConversionError")
    /\ Goto(w, "catch")
    /\ UNCHANGED <<quota, upl, gitserver, srcFiles, dbFiles, dumps, visible, commitGraph,
                   lock, tipCommit, commits, tipCommits, entries,
                   currentSizeBytes, dump, warned>>
    /\ UNCHANGED <<added, purged>>

\* dumpManager.deleteOverlappingDumps(repository, commit, root) resolves: the
\* overlapping dumps' rows and files are gone.
DeleteOverlappingDumpsOk(w) ==
    /\ pc[w] = "deleteOverlappingDumps"
    /\ DeleteDumps(Overlapping(w))
    /\ Call(w, "deleteOverlappingDumps", TRUE)
    /\ Goto(w, "addPackagesAndReferences")
    /\ UNCHANGED <<quota, upl, gitserver, srcFiles, tempFiles, commitGraph,
                   lock, err, tipCommit, commits, tipCommits, entries,
                   currentSizeBytes, dump, warned>>
    /\ UNCHANGED <<added, purged>>

\* A step of the try block rejects with a store or filesystem error.
TryStepFail(w) ==
    /\ pc[w] \in {"deleteOverlappingDumps", "addPackagesAndReferences", "rename"}
    /\ Call(w, pc[w], FALSE)
    /\ Throw(w, IF pc[w] = "rename" THEN "RenameError" ELSE "StoreError")
    /\ Goto(w, "catch")
    /\ UNCHANGED <<quota, upl, gitserver, srcFiles, tempFiles, dbFiles, dumps, visible,
                   commitGraph, lock, tipCommit, commits, tipCommits, entries,
                   currentSizeBytes, dump, warned>>
    /\ UNCHANGED <<added, purged>>

\* dependencyManager.addPackagesAndReferences(upload.id, ..) commits: the dump
\* row of upload.id exists.  The unique index on (repository, commit, root)
\* rejects the insert while an overlapping dump exists (TryStepFail).
AddPackagesAndReferencesOk(w) ==
    /\ pc[w] = "addPackagesAndReferences"
    /\ UniqueIndexAdmits(w)
    /\ InsertDump(w)
    /\ Call(w, "addPackagesAndReferences", TRUE)
    /\ Goto(w, "rename")
    /\ UNCHANGED <<quota, upl, gitserver, srcFiles, tempFiles, dbFiles, visible,
                   commitGraph, lock, err, tipCommit, commits, tipCommits, entries,
                   currentSizeBytes, dump, warned>>
    /\ UNCHANGED <<added, purged>>

\* The awaits of a purge that has listed the directory and not yet returned.
Measured == {"stat", "getOldestPrunableDump", "filesize", "deleteDump", "release"}

\* The rename of the try block, left out.
RenameEffectSkipped(w) ==
    /\ tempFiles' = tempFiles
    /\ dbFiles' = dbFiles

\* fs.rename(tempFile, dbFilename(STORAGE_ROOT, upload.id, repository, commit))
RenameEffect(w) ==
    /\ tempFiles' = tempFiles \ {w}
    /\ dbFiles' = dbFiles \cup {w}

RenameOk(w) ==
    /\ pc[w] = "rename"
    /\ w \in tempFiles
    /\ RenameEffect(w)
    /\ Call(w, "rename", TRUE)
    /\ Goto(w, "unlinkSource")
    /\ UNCHANGED <<quota, upl, gitserver, srcFiles, dumps, visible,
                   commitGraph, lock, err, tipCommit, commits, tipCommits, entries,
                   currentSizeBytes, dump, warned>>
    /\ added' = [v \in Workers |-> added[v] \/ pc[v] \in Measured]
    /\ UNCHANGED purged

\* The catch block without its unlink.
CatchEffectNoUnlink(w) ==
    /\ tempFiles' = tempFiles
    /\ err' = err
    /\ calls' = calls

\* catch (error) { await fs.unlink(tempFile); throw error }: unlink removes
\* the temp file and error is thrown; or unlink rejects, with ENOENT when
\* there is no temp file and with another error (EPERM) when the file cannot
\* be removed, and that rejection is what leaves the catch block.
CatchEffect(w) ==
    \/ /\ w \in tempFiles
       /\ tempFiles' = tempFiles \ {w}
       /\ err' = err
       /\ Call(w, "unlinkTemp", TRUE)
    \/ /\ tempFiles' = tempFiles
       /\ Throw(w, IF w \in tempFiles THEN "EPERM" ELSE "ENOENT")
       /\ Call(w, "unlinkTemp", FALSE)

\* The catch block without its throw: convertDatabase goes on after the try.
CatchExitSwallow == "unlinkSource"

\* The catch block is left by a throw (of error, or of unlink's rejection).
CatchExit == "failed"

Catch(w) ==
    /\ pc[w] = "catch"
    /\ CatchEffect(w)
    /\ Goto(w, CatchExit)
    /\ UNCHANGED <<quota, upl, gitserver, srcFiles, dbFiles, dumps, visible,
                   commitGraph, lock, tipCommit, commits, tipCommits, entries,
                   currentSizeBytes, dump, warned>>
    /\ UNCHANGED <<added, purged>>

\* await fs.unlink(upload.filename): it resolves and convertUpload goes on to
\* updateCommitsAndDumpsVisibleFromTip; or it rejects (ENOENT without the
\* file, EPERM when the file cannot be removed) and convertUpload rejects.
UnlinkSource(w) ==
    /\ pc[w] = "unlinkSource"
    /\ \/ /\ w \in srcFiles
          /\ srcFiles' = srcFiles \ {w}
          /\ err' = err
          /\ Goto(w, "discoverTip")
          /\ Call(w, "unlinkSource", TRUE)
       \/ /\ srcFiles' = srcFiles
          /\ Throw(w, IF w \in srcFiles THEN "EPERM" ELSE "ENOENT")
          /\ Goto(w, "failed")
          /\ Call(w, "unlinkSource", FALSE)
    /\ UNCHANGED <<quota, upl, gitserver, tempFiles, dbFiles, dumps, visible,
                   commitGraph, lock, tipCommit, commits, tipCommits, entries,
                   currentSizeBytes, dump, warned>>
    /\ UNCHANGED <<added, purged>>

ConvertDatabase(w) ==
    \/ ConvertLsifOk(w)
    \/ ConvertLsifFail(w)
    \/ DeleteOverlappingDumpsOk(w)
    \/ AddPackagesAndReferencesOk(w)
    \/ RenameOk(w)
    \/ TryStepFail(w)
    \/ Catch(w)
    \/ UnlinkSource(w)


\* ----------------------------------- updateCommitsAndDumpsVisibleFromTip

\* The guard on the tip, left out.
NoTipNever(t) == FALSE

\* if (tipCommit === undefined) throw new Error('No tip commit available ..')
NoTip(t) == t = Undefined

\* dumpManager.discoverTip resolves with the tip of the repository or undefined.
DiscoverTip(w) ==
    /\ pc[w] = "discoverTip"
    /\ \E t \in Commits \cup {Undefined} :
          /\ tipCommit' = [tipCommit EXCEPT ![w] = t]
          /\ IF NoTip(t)
             THEN Throw(w, "NoTip") /\ Goto(w, "failed")
             ELSE err' = err /\ Goto(w, "discoverCommits")
    /\ Call(w, "discoverTip", TRUE)
    /\ UNCHANGED <<quota, upl, gitserver, srcFiles, tempFiles, dbFiles, dumps, visible,
                   commitGraph, lock, commits, tipCommits, entries,
                   currentSizeBytes, dump, warned>>
    /\ UNCHANGED <<added, purged>>

\* A second discovery is needed only when the tip is not the processed commit,
\* mutated to always discover from the tip.
TipDiffersAlways(w) == TRUE

\* if (tipCommit !== upload.commit)
TipDiffers(w) == tipCommit[w] # upl[w].commit

\* dumpManager.discoverCommits({commit: upload.commit}) resolves.
DiscoverCommits(w) ==
    /\ pc[w] = "discoverCommits"
    /\ commits' = [commits EXCEPT ![w] = gitserver[upl[w].commit]]
    /\ Call(w, "discoverCommits", TRUE)
    /\ Goto(w, IF TipDiffers(w) THEN "discoverTipCommits" ELSE "updateCommits")
    /\ UNCHANGED <<quota, upl, gitserver, srcFiles, tempFiles, dbFiles, dumps, visible,
                   commitGraph, lock, err, tipCommit, tipCommits, entries,
                   currentSizeBytes, dump, warned>>
    /\ UNCHANGED <<added, purged>>

\* dumpManager.discoverCommits({commit: tipCommit}) resolves, and the loop
\* merges its result into commits.
DiscoverTipCommits(w) ==
    /\ pc[w] = "discoverTipCommits"
    /\ tipCommits' = [tipCommits EXCEPT ![w] = gitserver[tipCommit[w]]]
    /\ commits' = [commits EXCEPT ![w] = Merge(@, gitserver[tipCommit[w]])]
    /\ Call(w, "discoverCommits", TRUE)
    /\ Goto(w, "updateCommits")
    /\ UNCHANGED <<quota, upl, gitserver, srcFiles, tempFiles, dbFiles, dumps, visible,
                   commitGraph, lock, err, tipCommit, entries,
                   currentSizeBytes, dump, warned>>
    /\ UNCHANGED <<added, purged>>

\* dumpManager.updateCommits(repository, commits) resolves: the store knows
\* the commits and parents of the graph it was passed.
UpdateCommits(w) ==
    /\ pc[w] = "updateCommits"
    /\ commitGraph' = StoredCommits(commits[w])
    /\ Call(w, "updateCommits", TRUE)
    /\ Goto(w, "updateDumpsVisibleFromTip")
    /\ UNCHANGED <<quota, upl, gitserver, srcFiles, tempFiles, dbFiles, dumps, visible,
                   lock, err, tipCommit, commits, tipCommits, entries,
                   currentSizeBytes, dump, warned>>
    /\ UNCHANGED <<added, purged>>

\* The early return of purgeOldDumps, left out.
UnlimitedNever(q) == FALSE

\* if (maximumSizeBytes < 0) return Promise.resolve()
Unlimited(q) == q < 0

\* dumpManager.updateDumpsVisibleFromTip(repository, tipCommit) resolves; then
\* convertUpload calls purgeOldDumps, which returns at once or asks for the lock.
UpdateDumpsVisibleFromTip(w) ==
    /\ pc[w] = "updateDumpsVisibleFromTip"
    /\ visible' = VisibleFromTip(upl[w].repository, tipCommit[w], commitGraph, dumps)
                    \cup {d \in visible : upl[d].repository # upl[w].repository}
    /\ Call(w, "updateDumpsVisibleFromTip", TRUE)
    /\ Goto(w, IF Unlimited(quota) THEN "done" ELSE "withLock")
    /\ UNCHANGED <<quota, upl, gitserver, srcFiles, tempFiles, dbFiles, dumps,
                   commitGraph, lock, err, tipCommit, commits, tipCommits, entries,
                   currentSizeBytes, dump, warned>>
    /\ UNCHANGED <<added, purged>>

\* A call of the visibility update rejects (the VCS or the store fails).
VisibilityStepFail(w) ==
    /\ pc[w] \in {"discoverTip", "discoverCommits", "discoverTipCommits",
                  "updateCommits", "updateDumpsVisibleFromTip"}
    /\ Call(w, IF pc[w] = "discoverTipCommits" THEN "discoverCommits" ELSE pc[w], FALSE)
    /\ Throw(w, "StoreError")
    /\ Goto(w, "failed")
    /\ UNCHANGED <<quota, upl, gitserver, srcFiles, tempFiles, dbFiles, dumps, visible,
                   commitGraph, lock, tipCommit, commits, tipCommits, entries,
                   currentSizeBytes, dump, warned>>
    /\ UNCHANGED <<added, purged>>

UpdateCommitsAndDumpsVisibleFromTip(w) ==
    \/ DiscoverTip(w)
    \/ DiscoverCommits(w)
    \/ DiscoverTipCommits(w)
    \/ UpdateCommits(w)
    \/ UpdateDumpsVisibleFromTip(w)
    \/ VisibilityStepFail(w)

\* ---------------------------------------------------------- purgeOldDumps

\* while (currentSizeBytes > maximumSizeBytes): the await the loop goes to next.
\* The loop never entered.
LoopTestSkip(size) == "release"

\* The loop entered at the quota too.
LoopTestInclusive(size) == IF size >= quota THEN "getOldestPrunableDump" ELSE "release"

LoopTest(size) == IF size > quota THEN "getOldestPrunableDump" ELSE "release"

\* purge started without waiting for the lock.
AcquireLockSkipped(w) ==
    /\ pc[w] = "withLock"
    /\ lock' = {w}
    /\ Call(w, "lock", TRUE)
    /\ Goto(w, "readdir")
    /\ UNCHANGED <<quota, upl, gitserver, srcFiles, tempFiles, dbFiles, dumps, visible,
                   commitGraph, err, tipCommit, commits, tipCommits, entries,
                   currentSizeBytes, dump, warned>>
    /\ UNCHANGED <<added, purged>>

\* withLock(connection, 'retention', purge) obtains the lock and starts purge.
AcquireLock(w) ==
    /\ pc[w] = "withLock"
    /\ lock = {}
    /\ lock' = {w}
    /\ Call(w, "lock", TRUE)
    /\ Goto(w, "readdir")
    /\ UNCHANGED <<quota, upl, gitserver, srcFiles, tempFiles, dbFiles, dumps, visible,
                   commitGraph, err, tipCommit, commits, tipCommits, entries,
                   currentSizeBytes, dump, warned>>
    /\ UNCHANGED <<added, purged>>

\* dirsize: fs.readdir(directory) resolves; a filesize is started per entry.
Readdir(w) ==
    /\ pc[w] = "readdir"
    /\ entries' = [entries EXCEPT ![w] = dbFiles]
    /\ currentSizeBytes' = [currentSizeBytes EXCEPT ![w] = 0]
    /\ Call(w, "readdir", TRUE)
    /\ Goto(w, IF dbFiles = {} THEN LoopTest(0) ELSE "stat")
    /\ UNCHANGED <<quota, upl, gitserver, srcFiles, tempFiles, dbFiles, dumps, visible,
                   commitGraph, lock, err, tipCommit, commits, tipCommits,
                   dump, warned>>
    /\ UNCHANGED <<added, purged>>

\* dirsize: the filesize of one entry resolves; after the last one the sum is
\* currentSizeBytes and the loop condition is evaluated.
Stat(w) ==
    /\ pc[w] = "stat"
    /\ \E e \in entries[w] :
          LET size == currentSizeBytes[w] + Filesize(e)
          IN /\ entries' = [entries EXCEPT ![w] = @ \ {e}]
             /\ currentSizeBytes' = [currentSizeBytes EXCEPT ![w] = size]
             /\ Goto(w, IF entries[w] = {e} THEN LoopTest(size) ELSE "stat")
    /\ Call(w, "stat", TRUE)
    /\ UNCHANGED <<quota, upl, gitserver, srcFiles, tempFiles, dbFiles, dumps, visible,
                   commitGraph, lock, err, tipCommit, commits, tipCommits,
                   dump, warned>>
    /\ UNCHANGED <<added, purged>>

\* dumpManager.getOldestPrunableDump() resolves: without a dump purge warns
\* and breaks.
\* The loop without its break: it asks for a candidate again.
NoCandidateExitContinue == "getOldestPrunableDump"

\* if (!dump) { logger.warn(..); break }
NoCandidateExit == "release"

GetOldestPrunableDump(w) ==
    /\ pc[w] = "getOldestPrunableDump"
    /\ IF Prunable = {}
       THEN /\ warned' = [warned EXCEPT ![w] = TRUE]
            /\ dump' = dump
            /\ Goto(w, NoCandidateExit)
       ELSE /\ warned' = warned
            /\ dump' = [dump EXCEPT ![w] = {OldestPrunable}]
            /\ Goto(w, "filesize")
    /\ Call(w, "getOldestPrunableDump", TRUE)
    /\ UNCHANGED <<quota, upl, gitserver, srcFiles, tempFiles, dbFiles, dumps, visible,
                   commitGraph, lock, err, tipCommit, commits, tipCommits, entries,
                   currentSizeBytes>>
    /\ UNCHANGED <<added, purged>>

\* currentSizeBytes -= await filesize(filename)
SubtractFilesize(w) ==
    /\ pc[w] = "filesize"
    /\ currentSizeBytes' = [currentSizeBytes EXCEPT ![w] = @ - DumpFilesize(dump[w])]
    /\ Call(w, "filesize", TRUE)
    /\ Goto(w, "deleteDump")
    /\ UNCHANGED <<quota, upl, gitserver, srcFiles, tempFiles, dbFiles, dumps, visible,
                   commitGraph, lock, err, tipCommit, commits, tipCommits, entries,
                   dump, warned>>
    /\ UNCHANGED <<added, purged>>

\* dumpManager.deleteDump(dump) resolves: the row and the file are gone; the
\* loop condition is evaluated again.
DeleteDump(w) ==
    /\ pc[w] = "deleteDump"
    /\ DeleteDumps(dump[w])
    /\ Call(w, "deleteDump", TRUE)
    /\ Goto(w, LoopTest(currentSizeBytes[w]))
    /\ UNCHANGED <<quota, upl, gitserver, srcFiles, tempFiles,
                   commitGraph, lock, err, tipCommit, commits, tipCommits, entries,
                   currentSizeBytes, dump, warned>>
    /\ purged' = [purged EXCEPT ![w] = @ \o SetToSeq(dump[w])]
    /\ UNCHANGED added

\* An await of purge rejects (a stat error other than ENOENT, a store error).
PurgeStepFail(w) ==
    /\ pc[w] \in {"readdir", "stat", "getOldestPrunableDump", "filesize", "deleteDump"}
    /\ Call(w, pc[w], FALSE)
    /\ Throw(w, IF pc[w] \in {"stat", "filesize"} THEN "EACCES" ELSE "StoreError")
    /\ Goto(w, "release")
    /\ UNCHANGED <<quota, upl, gitserver, srcFiles, tempFiles, dbFiles, dumps, visible,
                   commitGraph, lock, tipCommit, commits, tipCommits, entries,
                   currentSizeBytes, dump, warned>>
    /\ UNCHANGED <<added, purged>>

\* withLock releases the lock when purge has resolved or rejected, and
\* convertUpload resolves or rejects with it.
ReleaseLock(w) ==
    /\ pc[w] = "release"
    /\ lock' = lock \ {w}
    /\ Call(w, "unlock", TRUE)
    /\ Goto(w, IF err[w] = None THEN "done" ELSE "failed")
    /\ UNCHANGED <<quota, upl, gitserver, srcFiles, tempFiles, dbFiles, dumps, visible,
                   commitGraph, err, tipCommit, commits, tipCommits, entries,
                   currentSizeBytes, dump, warned>>
    /\ UNCHANGED <<added, purged>>

PurgeOldDumps(w) ==
    \/ AcquireLock(w)
    \/ Readdir(w)
    \/ Stat(w)
    \/ GetOldestPrunableDump(w)
    \/ SubtractFilesize(w)
    \/ DeleteDump(w)
    \/ PurgeStepFail(w)
    \/ ReleaseLock(w)

\* ---------------------------------------------------------- convertUpload

ConvertUpload(w) ==
    \/ ConvertDatabase(w)
    \/ UpdateCommitsAndDumpsVisibleFromTip(w)
    \/ PurgeOldDumps(w)

Next == \E w \in Workers : ConvertUpload(w)

Spec == Init /\ [][Next]_vars

\* One upload, processed against a VCS that may answer any fragment for any
\* anchor (discoverCommits is bounded and paged, so fragments are partial and
\* two of them may list different parents for a commit).
InitVis ==
    /\ gitserver \in [Commits -> Fragments]
    /\ InitCommon({1})

SpecVis == InitVis /\ [][Next]_vars

\* The retention scenarios: the dumps of uploads 1 and 2 were published
\* before (by calls that met a tip tip0); upload 3 is processed alone, against
\* any of the quotas.  The roots differ, so that the three dumps coexist.
PurgeSizes == {0, 200, 300, 600}

PurgeQuotas == {0, 500, 1000, 1100}

Published == {1, 2}

PurgeRoot(w) == IF w = 1 THEN "" ELSE IF w = 2 THEN "lib" ELSE "cmd"

InitPurge ==
    /\ gitserver \in {[c \in Commits |-> Discovered(h, c)] : h \in Histories}
    /\ quota \in PurgeQuotas
    /\ upl \in {u \in [Workers -> [repository : Repositories, commit : Commits,
                                   root : {PurgeRoot(w) : w \in Workers},
                                   size : PurgeSizes]] :
                   \A w \in Workers : u[w].root = PurgeRoot(w)}
    /\ srcFiles = Workers \ Published
    /\ tempFiles = {}
    /\ dbFiles = Published
    /\ dumps = Published
    /\ \E tip0 \in Commits :
          /\ commitGraph = Merge(Merge(gitserver[upl[1].commit], gitserver[upl[2].commit]),
                                 gitserver[tip0])
          /\ visible = {d \in Published : upl[d].commit \in Reach(commitGraph, {tip0})}
    /\ lock = {}
    /\ pc = [w \in Workers |-> IF w \in Published THEN "idle" ELSE "convertLsif"]
    /\ err = [w \in Workers |-> None]
    /\ calls = [w \in Workers |-> <<>>]
    /\ tipCommit = [w \in Workers |-> None]
    /\ commits = [w \in Workers |-> EmptyFragment]
    /\ tipCommits = [w \in Workers |-> EmptyFragment]
    /\ entries = [w \in Workers |-> {}]
    /\ currentSizeBytes = [w \in Workers |-> 0]
    /\ dump = [w \in Workers |-> {}]
    /\ warned = [w \in Workers |-> FALSE]
    /\ added = [w \in Workers |-> FALSE]
    /\ purged = [w \in Workers |-> <<>>]

SpecPurge == InitPurge /\ [][Next]_vars

\* Every awaited call settles, so a worker that can take a step takes it.
SpecFair == Spec /\ \A w \in Workers : WF_vars(ConvertUpload(w))


\* ------------------------------------------------------------ properties

CallIndexes(w) == 1..Len(calls[w])

\* Worker w has made the call op.
Called(w, op) == \E i \in CallIndexes(w) : calls[w][i].op = op

\* A call op of worker w has resolved.
Resolved(w, op) == \E i \in CallIndexes(w) : calls[w][i] = [op |-> op, ok |-> TRUE]

\* A call op of worker w has rejected.
Rejected(w, op) == \E i \in CallIndexes(w) : calls[w][i] = [op |-> op, ok |-> FALSE]

NumCalls(w, op) == Cardinality({i \in CallIndexes(w) : calls[w][i].op = op})

\* The dump rows of the key of upload u.
KeyDumps(u) == {d \in dumps : Key(d) = Key(u)}

\* The artifacts of the key of upload u: a row, or a file at its dbFilename.
KeyArtifacts(u) == {d \in dumps \cup dbFiles : Key(d) = Key(u)}

\* C1 as stated: at the moment convertUpload returns successfully, exactly one
\* artifact exists for the upload's (repository, commit, root) and its file
\* exists at its dbFilename.
C1_ExactlyOneAtReturn ==
    [][\A w \in Workers :
          (pc[w] # "done" /\ pc'[w] = "done")
             => /\ Cardinality(KeyDumps(w)') = 1
                /\ KeyDumps(w)' \subseteq dbFiles']_vars

\* C1 amended: once convertUpload has returned successfully, at most one
\* artifact exists for the upload's key, and if the upload's own dump has not
\* been deleted since (by a purge or by an overlap deletion) it is that
\* artifact and its file exists at dbFilename(storageRoot, upload.id, ..).
C1_AtMostOneAfterReturn ==
    \A w \in Workers :
        pc[w] = "done"
           => /\ Cardinality(KeyDumps(w)) <= 1
              /\ w \in dumps => (KeyDumps(w) = {w} /\ w \in dbFiles)

\* A convertUpload that purged has returned, and its artifact is the one of its key.
C1_Witness ==
    \E w \in Workers :
        /\ pc[w] = "done"
        /\ Resolved(w, "unlock")
        /\ KeyDumps(w) = {w}
        /\ w \in dbFiles

\* C2 as stated: when an upload completes convertDatabase, at most one
\* artifact (a row or a file) exists for its key, in every interleaving.
C2_OverlapGoneAtCompletion ==
    [][\A w \in Workers :
          (pc[w] = "unlinkSource" /\ pc'[w] = "discoverTip")
             => Cardinality(KeyArtifacts(w)') <= 1]_vars

\* C3 as stated: when convertDatabase has failed, no file is left at the
\* upload's temporary destination path.
C3_NoTempFileAfterFailure ==
    \A w \in Workers :
        (pc[w] = "failed" /\ ~Resolved(w, "unlinkSource")) => w \notin tempFiles

\* C3 amended: when convertDatabase has failed, no file is left at the
\* upload's temporary destination path unless the unlink of that file was
\* itself rejected.
C3_NoTempFileUnlessUnlinkFailed ==
    \A w \in Workers :
        (pc[w] = "failed" /\ ~Resolved(w, "unlinkSource") /\ ~Rejected(w, "unlinkTemp"))
           => w \notin tempFiles

\* A rename failed (the temp file was there) and the failure has been reported.
C3_Witness ==
    \E w \in Workers :
        /\ pc[w] = "failed"
        /\ Rejected(w, "rename")
        /\ w \notin tempFiles

\* C4: the source file is deleted only after the converter, the metadata
\* transaction and the rename have succeeded, and it still exists when
\* convertUpload reports a failure of the conversion.
C4_SourceRemovedOnlyAfterSuccess ==
    \A w \in Workers :
        /\ (pc[w] # "idle" /\ w \notin srcFiles)
              => /\ Resolved(w, "convertLsif")
                 /\ Resolved(w, "addPackagesAndReferences")
                 /\ Resolved(w, "rename")
        /\ (pc[w] = "failed" /\ Called(w, "unlinkTemp")) => w \in srcFiles

\* Both cases: a source file deleted after full success, and one kept after a
\* failed conversion.
C4_Witness ==
    /\ \E w \in Workers : w \notin srcFiles /\ pc[w] = "done"
    /\ \E w \in Workers : pc[w] = "failed" /\ Rejected(w, "convertLsif") /\ w \in srcFiles

\* C5 as stated: when the converter fails, the error convertUpload raises is
\* the converter's error, whether or not a file was left at the temp path.
C5_OriginalErrorRaised ==
    \A w \in Workers :
        (pc[w] = "failed" /\ Rejected(w, "convertLsif")) => err[w] = "ConversionError"

\* The calls of the visibility update that must not happen without a tip.
AfterTipCalls == {"discoverCommits", "updateCommits", "updateDumpsVisibleFromTip"}

\* C6: when discoverTip returns undefined the update fails with the 'no tip'
\* error and neither discoverCommits nor updateCommits nor
\* updateDumpsVisibleFromTip is called.
C6_NoTipIsFatal ==
    \A w \in Workers :
        tipCommit[w] = Undefined
           => /\ pc[w] = "failed"
              /\ err[w] = "NoTip"
              /\ \A op \in AfterTipCalls : ~Called(w, op)

\* discoverTip has answered undefined for an upload whose dump is published.
C6_Witness ==
    \E w \in Workers :
        /\ tipCommit[w] = Undefined
        /\ Resolved(w, "discoverTip")
        /\ w \in dumps

\* The parents the fragment f lists for k, none when k is not a key of f.
ParentsIn(f, k) == IF k \in DOMAIN f THEN f[k] ELSE {}

\* C7: the graph passed to updateCommits has the keys of the fragment of the
\* processed commit and (when the tip differs) of the fragment of the tip,
\* each mapped to the union of its parents in both; when the tip is the
\* processed commit it is the first fragment and discoverCommits ran once.
C7_UpdateCommitsGetsUnion ==
    \A w \in Workers :
        (pc[w] = "updateCommits" \/ Called(w, "updateCommits"))
           => LET f1 == gitserver[upl[w].commit]
                  f2 == gitserver[tipCommit[w]]
              IN IF tipCommit[w] = upl[w].commit
                 THEN commits[w] = f1 /\ NumCalls(w, "discoverCommits") = 1
                 ELSE /\ DOMAIN commits[w] = DOMAIN f1 \cup DOMAIN f2
                      /\ \A k \in DOMAIN commits[w] :
                            commits[w][k] = ParentsIn(f1, k) \cup ParentsIn(f2, k)
                      /\ NumCalls(w, "discoverCommits") = 2

\* Two fragments that list different parents for a shared commit were merged
\* and passed to updateCommits.
C7_Witness ==
    \E w \in Workers :
        /\ Resolved(w, "updateCommits")
        /\ tipCommit[w] # upl[w].commit
        /\ \E k \in DOMAIN gitserver[upl[w].commit] \cap DOMAIN gitserver[tipCommit[w]] :
              /\ gitserver[upl[w].commit][k] # gitserver[tipCommit[w]][k]
              /\ commits[w][k] # gitserver[tipCommit[w]][k]
              /\ commits[w][k] # gitserver[upl[w].commit][k]

\* C8: the merge is commutative and idempotent: the graph merged from the
\* fragment of the processed commit and the fragment of the tip is the graph
\* the merge yields with the two fragments exchanged, and merging a fragment
\* with itself leaves it unchanged.
C8_MergeCommutes ==
    \A w \in Workers :
        (pc[w] = "updateCommits" /\ tipCommit[w] # upl[w].commit)
           => LET fA == gitserver[upl[w].commit]
                  fB == tipCommits[w]
              IN /\ commits[w] = Merge(fB, fA)
                 /\ Merge(fA, fA) = fA
                 /\ Merge(fB, fB) = fB
                 /\ Merge(commits[w], commits[w]) = commits[w]

\* Two merged fragments share a commit key with different parent sets, and
\* each has a key the other lacks.
C8_Witness ==
    \E w \in Workers :
        /\ pc[w] = "updateCommits"
        /\ tipCommit[w] # upl[w].commit
        /\ LET fA == gitserver[upl[w].commit]
               fB == tipCommits[w]
           IN \E k \in DOMAIN fA \cap DOMAIN fB :
                 /\ fA[k] \ fB[k] # {}
                 /\ fB[k] \ fA[k] # {}

\* The awaits of purge and of withLock.
PurgeLabels == {"withLock", "readdir", "stat", "getOldestPrunableDump", "filesize",
                "deleteDump", "release"}

PurgeCalls == {"lock", "readdir", "stat", "getOldestPrunableDump", "filesize",
               "deleteDump", "unlock"}

\* C9: with a negative maximum purgeOldDumps resolves at once: the lock is
\* never taken, the directory is never measured, getOldestPrunableDump is
\* never called and no dump is deleted by it.
C9_NegativeQuotaIsNoOp ==
    quota < 0
       => /\ lock = {}
          /\ \A w \in Workers :
                /\ pc[w] \notin PurgeLabels
                /\ \A op \in PurgeCalls : ~Called(w, op)
                /\ Resolved(w, "updateDumpsVisibleFromTip") => pc[w] = "done"
                /\ ~warned[w]

\* convertUpload has returned under a negative maximum with a non-empty
\* artifact directory.
C9_Witness ==
    /\ quota < 0
    /\ \E w \in Workers : pc[w] = "done" /\ w \in dbFiles /\ upl[w].size > 0
    /\ \A w \in Workers : pc[w] \in {"done", "idle"}


\* Iterations of the purge loop worker w has started, and dumps it deleted.
Iterations(w) == NumCalls(w, "getOldestPrunableDump")

Deletions(w) ==
    Cardinality({i \in CallIndexes(w) : calls[w][i] = [op |-> "deleteDump", ok |-> TRUE]})

\* The dumps the store can ever hold: one per upload.
NumCandidates == Cardinality({w \in Workers : pc[w] # "idle"})

\* The awaits inside the critical section of purge.
LoopLabels == {"readdir", "stat", "getOldestPrunableDump", "filesize", "deleteDump"}

\* C10: the purge loop terminates: it never starts more than one iteration
\* beyond the dumps it deleted and deletes no more dumps than the store ever
\* offered; once getOldestPrunableDump has returned no candidate the loop has
\* exited, after exactly one iteration more than its deletions; and inside
\* the loop the next step is never blocked.  This holds also when the deleted
\* files have size zero or are missing.
C10_PurgeTerminates ==
    \A w \in Workers :
        /\ Iterations(w) <= Deletions(w) + 1
        /\ Deletions(w) <= NumCandidates
        /\ warned[w] => /\ pc[w] \in {"release", "done", "failed"}
                        /\ Iterations(w) = Deletions(w) + 1
        /\ pc[w] \in LoopLabels \cup {"release"} => ENABLED PurgeOldDumps(w)

\* Under fair scheduling a purge that has the lock ends: its convertUpload
\* returns or fails.
PurgeEnds == \A w \in Workers : (pc[w] = "readdir") ~> (pc[w] \in {"done", "failed"})

\* A purge ended on "no candidate" after deleting a dump whose file had size
\* zero or was missing, the directory still being over the quota.
C10_Witness ==
    \E w \in Workers :
        /\ pc[w] = "done"
        /\ warned[w]
        /\ Deletions(w) >= 1
        /\ Iterations(w) = Deletions(w) + 1
        /\ currentSizeBytes[w] > quota
        /\ \A d \in dump[w] : upl[d].size = 0


RECURSIVE SumSizes(_)
\* The sum of the sizes of the files of S.
SumSizes(S) ==
    IF S = {} THEN 0
    ELSE LET d == CHOOSE x \in S : TRUE IN upl[d].size + SumSizes(S \ {d})

\* The total size of the files of the artifact directory.
DirSize == SumSizes(dbFiles)

\* The purge of worker w has resolved (its loop is left, no await rejected).
PurgeResolved(w) == pc[w] = "release" /\ err[w] = None

\* C11 as stated: when a purge with a non-negative quota finishes without the
\* warning, the total size of the files of the directory is at most the quota.
C11_WithinQuotaUnlessWarned ==
    \A w \in Workers : (PurgeResolved(w) /\ ~warned[w]) => DirSize <= quota

\* C11 amended: when a purge finishes without the warning and no file was
\* renamed into the directory since the purge listed it, the total size of
\* the files of the directory is at most the quota; when it finishes with the
\* warning, getOldestPrunableDump returned no candidate and the running total
\* exceeds the quota.
C11_WithinQuotaUnlessGrown ==
    \A w \in Workers :
        PurgeResolved(w)
           => /\ (~warned[w] /\ ~added[w]) => DirSize <= quota
              /\ ~warned[w] => currentSizeBytes[w] <= quota
              /\ warned[w] => currentSizeBytes[w] > quota

\* A purge that deleted a dump has finished within the quota with files left,
\* and another that found no candidate has finished above it.
C11_Witness ==
    /\ \E w \in Workers :
          /\ PurgeResolved(w) /\ ~warned[w] /\ ~added[w]
          /\ Len(purged[w]) > 0
          /\ DirSize > 0
    /\ \E w \in Workers : pc[w] = "done" /\ warned[w]

Range(q) == {q[i] : i \in 1..Len(q)}

\* C12: a purge running alone deletes the shortest prefix of the oldest
\* prunable order that brings the size within the quota: an iteration starts
\* only above the quota, the dumps deleted are older than every prunable dump
\* left, the total before the last deletion exceeded the quota, and the loop
\* ends within the quota or without a candidate.  With quota 1000 and dumps of
\* 600, 300 and 200 bytes, all prunable, dump 1 alone is deleted and 500 are left.
C12_ShortestOldestPrefix ==
    \A w \in Workers :
        /\ pc[w] \in {"getOldestPrunableDump", "filesize"} => currentSizeBytes[w] > quota
        /\ pc[w] \in {"getOldestPrunableDump", "release", "done"}
              => /\ \A i \in 1..Len(purged[w]) :
                       /\ \A p \in Prunable : purged[w][i] < p
                       /\ \A j \in 1..Len(purged[w]) : i < j => purged[w][i] < purged[w][j]
                 /\ Range(purged[w]) \cap (dumps \cup dbFiles) = {}
        /\ PurgeResolved(w)
              => /\ currentSizeBytes[w] = DirSize
                 /\ warned[w] => (Prunable = {} /\ DirSize > quota)
                 /\ ~warned[w] => DirSize <= quota
                 /\ Len(purged[w]) > 0
                       => DirSize + upl[purged[w][Len(purged[w])]].size > quota
                 /\ ( /\ quota = 1000
                      /\ upl[1].size = 600 /\ upl[2].size = 300 /\ upl[3].size = 200
                      /\ visible = {} /\ ~Called(w, "unlinkTemp") )
                       => (purged[w] = <<1>> /\ DirSize = 500 /\ dumps = {2, 3})

\* The scenario: quota 1000, dumps of 600, 300 and 200 bytes, dump 1 deleted.
C12_Witness ==
    \E w \in Workers :
        /\ pc[w] = "done"
        /\ quota = 1000
        /\ upl[1].size = 600 /\ upl[2].size = 300 /\ upl[3].size = 200
        /\ purged[w] = <<1>>
        /\ dumps = {2, 3}
        /\ DirSize = 500


\* The awaits of purge, all inside withLock.
CriticalLabels == {"readdir", "stat", "getOldestPrunableDump", "filesize", "deleteDump",
                   "release"}

\* C13: the purges exclude each other: a worker inside purge holds the
\* retention lock, so at most one worker is inside; a worker waiting for the
\* lock has measured and selected nothing; no dump is selected by two purges.
C13_PurgesExcludeEachOther ==
    /\ \A w \in Workers : pc[w] \in CriticalLabels => lock = {w}
    /\ \A w \in Workers :
          pc[w] = "withLock" => (~Called(w, "readdir") /\ dump[w] = {} /\ purged[w] = <<>>)
    /\ \A v, w \in Workers :
          v # w => /\ Range(purged[v]) \cap Range(purged[w]) = {}
                   /\ pc[w] \in {"filesize", "deleteDump"}
                         => dump[w] \cap Range(purged[v]) = {}

\* A purge is about to delete a dump while another worker waits for the lock,
\* and later both purges have deleted a dump.
C13_Witness ==
    \/ \E v, w \in Workers :
          /\ pc[v] = "deleteDump"
          /\ pc[w] = "withLock"
    \/ \E v, w \in Workers :
          /\ v # w
          /\ Len(purged[v]) > 0
          /\ Len(purged[w]) > 0

\* C14 as stated: when purge calls deleteDump (its filesize has resolved) the
\* dump is not visible from the tip, whatever the other workers did meanwhile.
C14_PrunableWhenDeleted ==
    [][\A w \in Workers :
          (pc[w] = "filesize" /\ pc'[w] = "deleteDump") => dump[w] \cap visible' = {}]_vars


\* The last call of worker w but n.
LastCall(w, n) == calls[w][Len(calls[w]) - n]

\* C15: a quota that cannot be met is not fatal: after the warning purge has
\* raised no error, getOldestPrunableDump was its last call (nothing more is
\* deleted), the lock is released and convertUpload returns successfully with
\* the running total above the quota.
C15_UnmetQuotaIsNotFatal ==
    \A w \in Workers :
        warned[w]
           => /\ err[w] = None
              /\ currentSizeBytes[w] > quota
              /\ pc[w] \in {"release", "done"}
              /\ pc[w] = "release"
                    => /\ lock = {w}
                       /\ LastCall(w, 0) = [op |-> "getOldestPrunableDump", ok |-> TRUE]
              /\ pc[w] = "done"
                    => /\ w \notin lock
                       /\ LastCall(w, 0) = [op |-> "unlock", ok |-> TRUE]
                       /\ LastCall(w, 1) = [op |-> "getOldestPrunableDump", ok |-> TRUE]

\* convertUpload has returned after the warning, the directory above the quota.
C15_Witness ==
    \E w \in Workers :
        /\ warned[w]
        /\ pc[w] = "done"
        /\ lock = {}
        /\ DirSize > quota

\* The steps of convertDatabase, in the order of the code.
ConvertSteps == <<"convertLsif", "deleteOverlappingDumps", "addPackagesAndReferences",
                  "rename", "unlinkSource">>

ConvertCalls == {"convertLsif", "deleteOverlappingDumps", "addPackagesAndReferences",
                 "rename", "unlinkSource"}

\* C16: convertDatabase runs the converter, deleteOverlappingDumps,
\* addPackagesAndReferences, the rename and the removal of the source in this
\* order, each once and only after every earlier one has resolved: the i-th
\* step is the i-th call of the worker and the call before it is the step
\* before it, resolved.
C16_ConvertStepsInOrder ==
    \A w \in Workers : \A i \in CallIndexes(w) :
        calls[w][i].op \in ConvertCalls
           => /\ i <= Len(ConvertSteps)
              /\ calls[w][i].op = ConvertSteps[i]
              /\ i > 1 => calls[w][i - 1] = [op |-> ConvertSteps[i - 1], ok |-> TRUE]

\* A convertDatabase has run through, and another has stopped at the rename.
C16_Witness ==
    /\ \E w \in Workers : Resolved(w, "unlinkSource")
    /\ \E w \in Workers : Rejected(w, "rename")

\* C17 as stated: a file at the final path of an artifact has its metadata.
C17_FileImpliesMetadata == dbFiles \subseteq dumps

VisibilityLabels == {"discoverTip", "discoverCommits", "discoverTipCommits", "updateCommits",
                     "updateDumpsVisibleFromTip"}

VisibilityCalls == {"discoverTip", "discoverCommits", "updateCommits",
                    "updateDumpsVisibleFromTip"}

\* The calls made while an error propagates.
CleanupCalls == {"unlinkTemp", "unlock"}

\* The stages of convertUpload so far follow one another.
StagesInOrder(w) ==
    /\ (\E op \in VisibilityCalls : Called(w, op))
          => /\ \A i \in 1..Len(ConvertSteps) : Resolved(w, ConvertSteps[i])
             /\ ~Called(w, "unlinkTemp")
    /\ Called(w, "lock")
          => /\ Resolved(w, "updateCommits")
             /\ Resolved(w, "updateDumpsVisibleFromTip")
             /\ tipCommit[w] \in Commits
    /\ \A i \in CallIndexes(w) :
          ~calls[w][i].ok
             => /\ err[w] # None
                /\ pc[w] # "done"
                /\ \/ i = Len(calls[w])
                   \/ i = Len(calls[w]) - 1 /\ LastCall(w, 0).op \in CleanupCalls

\* C18: convertUpload runs conversion, visibility update and purge in this
\* order: the visibility update starts only after convertDatabase has
\* resolved, the lock is asked for only after the visibility update has
\* resolved, a rejected call is followed by cleanup only, and a visibility
\* update that fails (no tip, or a rejected call) leaves the dumps, their
\* files and their visibility as they were.
C18_StagesInOrder ==
    [][\A w \in Workers :
          /\ calls'[w] # calls[w] => StagesInOrder(w)'
          /\ (pc[w] \in VisibilityLabels /\ pc'[w] = "failed")
                => UNCHANGED <<dumps, dbFiles, tempFiles, visible, commitGraph>>]_vars

\* One convertUpload has failed for want of a tip, its dump and file in place,
\* and another has gone through the purge.
C18_Witness ==
    /\ \E w \in Workers :
          /\ pc[w] = "failed"
          /\ err[w] = "NoTip"
          /\ w \in dumps \cap dbFiles
    /\ \E w \in Workers : pc[w] = "done" /\ Resolved(w, "deleteDump")

\* C19: a file that is missing when purge measures it counts 0 and raises no
\* error: the stat of a missing entry adds nothing, the filesize of a dump
\* whose file is missing subtracts nothing and deleteDump is called and
\* removes the dump from the store; a stat error other than ENOENT ends the
\* purge with that error.
C19_MissingFileCountsZero ==
    [][\A w \in Workers :
          /\ ( /\ pc[w] = "stat"
               /\ entries'[w] # entries[w]
               /\ (entries[w] \ entries'[w]) \cap dbFiles = {} )
                => /\ currentSizeBytes'[w] = currentSizeBytes[w]
                   /\ err'[w] = None
                   /\ pc'[w] \in {"stat", "getOldestPrunableDump", "release"}
          /\ ( /\ pc[w] = "filesize"
               /\ dump[w] \cap dbFiles = {}
               /\ Len(calls'[w]) > Len(calls[w])
               /\ err'[w] = None )
                => /\ currentSizeBytes'[w] = currentSizeBytes[w]
                   /\ pc'[w] = "deleteDump"
          /\ ( /\ pc[w] = "deleteDump"
               /\ Len(calls'[w]) > Len(calls[w])
               /\ err'[w] = None )
                => /\ dump[w] \cap (dumps' \cup dbFiles') = {}
                   /\ purged'[w] = purged[w] \o SetToSeq(dump[w])
          /\ (err[w] = None /\ err'[w] = "EACCES")
                => /\ pc[w] \in {"stat", "filesize"}
                   /\ pc'[w] = "release"
                   /\ UNCHANGED <<dumps, dbFiles, currentSizeBytes>>
          /\ (err[w] = "EACCES" /\ pc[w] = "release" /\ pc'[w] # "release")
                => pc'[w] = "failed"]_vars

\* A purge has deleted a dump whose file was not renamed into the directory
\* yet, and has met a stat error afterwards.
C19_Witness ==
    \E w \in Workers : \E d \in tempFiles :
        /\ d \in Range(purged[w])
        /\ pc[w] = "failed"
        /\ err[w] = "EACCES"

\* C20: whenever the loop condition has been evaluated and no file was
\* renamed into the directory since the purge listed it, currentSizeBytes is
\* at least the total size of the files of the directory.
C20_NeverUnderCounts ==
    \A w \in Workers :
        (pc[w] \in {"getOldestPrunableDump", "release"} /\ err[w] = None /\ ~added[w])
           => currentSizeBytes[w] >= DirSize

\* The loop condition is evaluated after a deletion with the total counted
\* exactly, files left; and elsewhere the total is over-counted.
C20_Witness ==
    \/ \E w \in Workers :
          /\ pc[w] = "getOldestPrunableDump"
          /\ ~added[w]
          /\ Len(purged[w]) > 0
          /\ DirSize > 0
          /\ currentSizeBytes[w] = DirSize
    \/ \E w \in Workers :
          /\ pc[w] \in {"getOldestPrunableDump", "release"} /\ err[w] = None
          /\ ~added[w]
          /\ currentSizeBytes[w] > DirSize

====
